---------------------------- MODULE Spec2Model ----------------------------
(***************************************************************************)
(* Model of the recorder controller of Meeting-Sense (src/app.py):         *)
(* FileIntegrityManager (verify_file_complete, find_stable_recording_file, *)
(* safe_move_file) and EnhancedOBSController (connect, start_recording,    *)
(* stop_recording, set_recording_target, disconnect).                      *)
(*                                                                         *)
(* The filesystem is a function from paths to file records, the recorder   *)
(* (OBS) is an environment with its own state, and time is an integer      *)
(* clock in seconds.  Handlers that only talk to the recorder are one      *)
(* action each, their RPC results drawn with \E; stop_recording and        *)
(* safe_move_file are sequences of steps (pc) so that the recorder's       *)
(* writes and filesystem faults can fall between their steps.              *)
(***************************************************************************)
EXTENDS Integers, FiniteSets, Sequences, TLC

VARIABLES
    state,                  \* self.state
    client,                 \* self.client is not None
    im_client,              \* self.integrity_manager.obs_client is not None
    obs_process,            \* self.obs_process is not None
    obs_started_by_us,      \* self.obs_started_by_us
    recording_target,       \* self.recording_target
    last_recording_path,    \* self.last_recording_path
    recording_start_time,   \* self.recording_start_time
    fs,                     \* the filesystem: path -> file
    now,                    \* time.time()
    obs_running,            \* recorder process is running
    obs_external,           \* the running recorder was not started by obs_process
    obs_rec,                \* recorder: capture output active
    obs_vcam,               \* recorder: virtual camera output active
    obs_file,               \* recorder: the file it still holds open
    obs_seq,                \* recorder: how many files it has created
    pc,                     \* position of the running handler
    caller,                 \* who runs stop_recording / safe_move_file
    stable_files,           \* find_stable_recording_file: stable_files
    pass_num,               \* find_stable_recording_file: pass_num
    recording_file,         \* stop_recording: recording_file
    final_path,             \* stop_recording: final_path
    mv,                     \* safe_move_file: its arguments and locals
    ret,                    \* value returned by the handler that just ended
    snap,                   \* the controller and the files when the handler began
    hist,                   \* what the running handler did so far
    video_recording_active, \* meeting_status['video_recording_active']
    calls                   \* the handlers that run on threads of their own

vars == <<state, client, im_client, obs_process, obs_started_by_us,
          recording_target, last_recording_path, recording_start_time,
          fs, now, obs_running, obs_external, obs_rec, obs_vcam, obs_file,
          obs_seq, pc, caller, stable_files, pass_num, recording_file,
          final_path, mv, ret, snap, hist, video_recording_active, calls>>

-----------------------------------------------------------------------------
(* Bounds of the model *)

\* the callers that run handlers at the same time
NumCallers == 2

\* clock value every handler starts from (times are translated on return)
Base == 40
\* recorder output files r1..rN
NumRecFiles == 1
\* names "<base>_<timestamp><ext>" available to resolve a conflict
MaxConflicts == 1
\* writes of at most this many growth steps above the size floor
MaxGrowth == 3

-----------------------------------------------------------------------------
(* Program constants *)

MinSizeKB == 100                \* verify_file_complete(min_size_kb=100)
MinAge == 3                     \* time_diff < 3
ChangeThreshold == 1024         \* _file_changed: > 1024 bytes
StablePasses == 3               \* range(3)
PassInterval == 2               \* time.sleep(2) between passes
StableBuffer == 10              \* mtime > start_time - 10
FallbackBuffer == 5             \* mtime > recording_start_time - 5
StopTimeout == 30               \* wait_for_recording_stop(timeout=30)
MinimumFinalizeTime == 8        \* minimum_finalize_time
PollInterval == 1               \* time.sleep(1) in the wait loops
StartSettle == 2                \* time.sleep(2) after start_record
VcamStopSettle == 1             \* time.sleep(1) after stop_virtual_cam
VirtualCamWaitTimeout == 20     \* CONFIG['virtual_cam_wait_timeout']
MaxAttempts == 2                \* connect: max_attempts

MinSizeBytes == MinSizeKB * 1024

-----------------------------------------------------------------------------
(* RecorderState *)

DISCONNECTED == "disconnected"
CONNECTING == "connecting"
CONNECTED == "connected"
VIRTUAL_CAM_STARTING == "virtual_cam_starting"
VIRTUAL_CAM_ACTIVE == "virtual_cam_active"
RECORDING == "recording"
STOPPING == "stopping"
ERROR == "error"

RecorderState == {DISCONNECTED, CONNECTING, CONNECTED, VIRTUAL_CAM_STARTING,
                  VIRTUAL_CAM_ACTIVE, RECORDING, STOPPING, ERROR}

-----------------------------------------------------------------------------
(* Paths and files *)

\* A path is a directory, a name and a suffix.  The recorder's directory
\* holds r0 (an earlier recording) and r1..rN; the target folder holds the target's file name (v = 0) and
\* the names the conflict rule derives from it (v >= 1).
RecDir == "rec"
TgtDir == "tgt"
MaxName == IF NumRecFiles >= MaxConflicts THEN NumRecFiles ELSE MaxConflicts
Paths == [dir : {RecDir, TgtDir}, v : 0..MaxName, sfx : {"", "moving", "backup"}]
NoPath == [dir |-> "none", v |-> 0, sfx |-> ""]

RPath(n) == [dir |-> RecDir, v |-> n, sfx |-> ""]
TPath(n) == [dir |-> TgtDir, v |-> n, sfx |-> ""]
RecPaths == {RPath(n) : n \in 0..NumRecFiles}

\* f"{target_path}.moving"
TempOf(p) == [p EXCEPT !.sfx = "moving"]
\* f"{target_path}.backup.{int(time.time())}"
BackupOf(p) == [p EXCEPT !.sfx = "backup"]

\* A file: its size in bytes, its modification time, whether its first 100
\* bytes can be read, and the identity of its content.
NoFile == [ex |-> FALSE, size |-> 0, mtime |-> 0, ok |-> FALSE, id |-> "none"]
File(sz, mt, rd, i) == [ex |-> TRUE, size |-> sz, mtime |-> mt, ok |-> rd, id |-> i]
Exists(f, p) == p \in DOMAIN f /\ f[p].ex

\* the file a caller may already have at the target path
FileF == File(MinSizeBytes, 0, TRUE, "F")
\* a recording made shortly before the controller was constructed
FileEarlier == File(MinSizeBytes, Base - 1, TRUE, "earlier")

NoTarget == [set |-> FALSE, folder |-> "none",
             filename |-> [base |-> "none", ext |-> ""], full_path |-> NoPath]
NoTime == -1

-----------------------------------------------------------------------------
(* FileIntegrityManager.verify_file_complete *)

VerifyReason(f, t, p) ==
    IF ~Exists(f, p) THEN "missing"
    ELSE IF f[p].size < MinSizeBytes THEN "too_small"
    ELSE IF t - f[p].mtime < MinAge THEN "too_recent"
    ELSE IF ~f[p].ok THEN "unreadable"
    ELSE "ok"

VerifyComplete(f, t, p) == VerifyReason(f, t, p) = "ok"

-----------------------------------------------------------------------------
(* Bookkeeping of the running handler *)

NoRet == [op |-> "none", ok |-> FALSE, msg |-> "", path |-> NoPath]
Ret(op, ok, msg, p) == [op |-> op, ok |-> ok, msg |-> msg, path |-> p]

EmptyFs == [p \in Paths |-> NoFile]
NoSnap == [state |-> DISCONNECTED, target |-> NoTarget, start |-> NoTime,
           last |-> NoPath, fs |-> EmptyFs, running |-> FALSE,
           external |-> FALSE, vcam |-> FALSE]
Snap == [state |-> state, target |-> recording_target,
         start |-> recording_start_time, last |-> last_recording_path,
         fs |-> fs, running |-> obs_running, external |-> obs_external,
         vcam |-> obs_vcam]

\* sent: the RPCs issued; found: how the recording file was found;
\* dropped: the files a stabilization pass removed from the stable set;
\* moved: safe_move_file was called; attempts: iterations of connect's loop;
\* expired: the wait loops that ran out their bound; notified: the state of
\* the last 'state_changed' event; killed: the recorder was made to quit;
\* low_disk: the pre-flight check found less than 1 GB free; fault: a call
\* to the recorder or to the filesystem failed, or the recorder wrote to its
\* file after the stop command
NoHist == [sent |-> {}, found |-> "none", dropped |-> {}, moved |-> FALSE,
           attempts |-> 0, expired |-> {}, notified |-> "none",
           killed |-> FALSE, low_disk |-> FALSE, fault |-> FALSE]

\* safe_move_file: its arguments; whether backup_path was assigned; the
\* step that failed; its result
NoMv == [src |-> NoPath, tgt |-> NoPath, backup |-> FALSE, fail |-> "none",
         ok |-> FALSE]

\* an entry of stable_files: (mtime, size) of a tracked file
NoEntry == [in |-> FALSE, mtime |-> 0, size |-> 0]
Entry(f) == [in |-> TRUE, mtime |-> f.mtime, size |-> f.size]

Max(a, b) == IF a >= b THEN a ELSE b
Abs(a) == IF a >= 0 THEN a ELSE 0 - a

-----------------------------------------------------------------------------
(* Initial states *)

\* the callers of the controller that run at the same time, and what one
\* of them is doing: op the handler, at its position, issued whether it has
\* sent the start or the stop command
Threads == 1..NumCallers
NoCall == [op |-> "none", at |-> "none", issued |-> FALSE]

InitController ==
    /\ video_recording_active = FALSE
    /\ calls = [t \in Threads |-> NoCall]
    /\ state = DISCONNECTED
    /\ client = FALSE
    /\ im_client = FALSE
    /\ obs_process = FALSE
    /\ obs_started_by_us = FALSE
    /\ recording_target = NoTarget
    /\ last_recording_path = NoPath
    /\ recording_start_time = NoTime
    /\ now = Base
    /\ obs_rec = FALSE
    /\ obs_vcam = FALSE
    /\ obs_file = NoPath
    /\ obs_seq = 0
    /\ pc = "idle"
    /\ caller = "none"
    /\ stable_files = [p \in RecPaths |-> NoEntry]
    /\ pass_num = 0
    /\ recording_file = NoPath
    /\ final_path = NoPath
    /\ mv = NoMv
    /\ ret = NoRet
    /\ snap = NoSnap
    /\ hist = NoHist

\* The controller is fresh; the recorder may or may not be running already
\* and the target path may or may not hold a file of the caller's.
Init ==
    /\ InitController
    /\ obs_running \in BOOLEAN
    /\ obs_external = obs_running
    /\ \E f \in {NoFile, FileF}, e \in {NoFile, FileEarlier} :
          fs = [EmptyFs EXCEPT ![TPath(0)] = f, ![RPath(0)] = e]

-----------------------------------------------------------------------------
(* The caller takes the result of a handler.  Time is translated so that   *)
(* the next handler starts at Base again: every comparison of times in the *)
(* program is a comparison of differences.  A time that falls below 0 is   *)
(* kept at 0, which is older than any session can reach back to.  Files    *)
(* that no step reads again are kept in one form: a file of the target     *)
(* folder keeps its content identity and whether it can be read; a closed  *)
(* file of the recorder older than the window of this and of every later   *)
(* session (lines 217 and 1236) keeps its existence only, a younger one    *)
(* its size as far as line 163 tells sizes apart.  The start time is read  *)
(* in state RECORDING only (lines 1219, 1236, 1369): in any other state a  *)
(* start time that was set is kept as 0.  A recorder that no longer        *)
(* captures has closed its file by the time the next handler is called.    *)

Shift(t, d) == Max(0, t - d)

SettledTarget(file) == File(MinSizeBytes, 0, file.ok, file.id)
StaleFile == File(MinSizeBytes, 0, TRUE, "old")

SettledSize(sz) == IF sz >= MinSizeBytes THEN MinSizeBytes ELSE 0

Settle(f, d, open, horizon) ==
    [p \in Paths |->
        IF ~f[p].ex THEN f[p]
        ELSE IF p.dir = TgtDir THEN SettledTarget(f[p])
        ELSE IF p # open /\ Shift(f[p].mtime, d) <= horizon - StableBuffer
             THEN StaleFile
        ELSE IF p # open
             THEN [f[p] EXCEPT !.mtime = Shift(@, d), !.size = SettledSize(@)]
        ELSE [f[p] EXCEPT !.mtime = Shift(@, d)]]

\* start_video_recording, lines 4596-4597, and stop_video_recording, lines
\* 4641-4642: the flag follows a start and a stop that succeeded
FlagAfter(flag, r) ==
    IF r.op = "start" /\ r.ok THEN TRUE
    ELSE IF r.op = "stop" /\ r.ok THEN FALSE
    ELSE flag

Return ==
    /\ pc = "returned"
    /\ pc' = "idle"
    /\ video_recording_active' = FlagAfter(video_recording_active, ret)
    /\ ret' = NoRet
    /\ snap' = NoSnap
    /\ hist' = NoHist
    /\ mv' = NoMv
    /\ caller' = "none"
    /\ stable_files' = [p \in RecPaths |-> NoEntry]
    /\ pass_num' = 0
    /\ recording_file' = NoPath
    /\ final_path' = NoPath
    /\ now' = Base
    /\ recording_start_time' =
          IF recording_start_time = NoTime THEN NoTime
          ELSE IF state # RECORDING THEN 0
          ELSE Shift(recording_start_time, now - Base)
    /\ obs_file' = IF obs_rec THEN obs_file ELSE NoPath
    /\ fs' = Settle(fs, now - Base, obs_file',
                    IF state = RECORDING THEN recording_start_time' ELSE Base)
    /\ UNCHANGED <<state, client, im_client, obs_process, obs_started_by_us,
                   recording_target, last_recording_path, obs_running,
                   obs_rec, obs_vcam, obs_seq, obs_external, calls>>

-----------------------------------------------------------------------------
(* EnhancedOBSController.connect *)

\* What one attempt of the loop meets: the launch (only when the recorder is
\* not running) and then the channel.
LaunchOutcomes == {"no_path", "popen_raise", "ws_ready", "ws_timeout", "died"}
ChannelOutcomes == {"client_raise", "version_raise", "ok"}

\* _launch_obs_32 from connect, the recorder not running
LaunchObs(c, l) ==
    CASE l = "no_path"     -> [c EXCEPT !.launched = FALSE]
      [] l = "popen_raise" -> [c EXCEPT !.launched = FALSE, !.started = FALSE]
      [] l = "ws_ready"    -> [c EXCEPT !.launched = TRUE, !.process = TRUE,
                                        !.started = TRUE, !.running = TRUE,
                                        !.external = FALSE]
      [] l = "ws_timeout"  -> [c EXCEPT !.launched = FALSE, !.process = TRUE,
                                        !.started = TRUE, !.running = TRUE,
                                        !.external = FALSE]
      [] l = "died"        -> [c EXCEPT !.launched = FALSE, !.process = TRUE,
                                        !.started = TRUE, !.running = FALSE,
                                        !.external = FALSE]

\* lines 892 and 938: "attempt == max_attempts - 1"
LastAttemptNever(attempt) == FALSE
LastAttempt(attempt) == attempt = MaxAttempts - 1

\* one iteration of "for attempt in range(max_attempts)"
ConnectAttempt(c, attempt, l, ch) ==
    LET c0 == [c EXCEPT !.attempts = @ + 1]
        c1 == IF c0.running THEN [c0 EXCEPT !.launched = TRUE] ELSE LaunchObs(c0, l)
    IN  IF ~c1.launched
        THEN IF LastAttempt(attempt)
             THEN [c1 EXCEPT !.state = ERROR, !.done = TRUE, !.result = FALSE,
                             !.notified = ERROR]
             ELSE c1
        ELSE CASE ch = "ok" ->
                    [c1 EXCEPT !.client = TRUE, !.im_client = TRUE,
                               !.state = CONNECTED, !.done = TRUE, !.result = TRUE,
                               !.notified = CONNECTED,
                               !.sent = @ \cup {"get_version"}]
               [] ch = "version_raise" ->
                    [c1 EXCEPT !.client = TRUE,
                               !.sent = @ \cup {"get_version"},
                               !.state = IF LastAttempt(attempt) THEN ERROR ELSE @,
                               !.notified = IF LastAttempt(attempt) THEN ERROR ELSE @]
               [] ch = "client_raise" ->
                    [c1 EXCEPT !.state = IF LastAttempt(attempt) THEN ERROR ELSE @,
                               !.notified = IF LastAttempt(attempt) THEN ERROR ELSE @]

RECURSIVE ConnectLoop(_, _, _, _)
ConnectLoop(c, attempt, ls, chs) ==
    IF attempt = MaxAttempts \/ c.done THEN c
    ELSE ConnectLoop(ConnectAttempt(c, attempt, ls[attempt + 1], chs[attempt + 1]),
                     attempt + 1, ls, chs)

\* Outcomes that no attempt consults are kept at one value: the channel's
\* after a launch that failed, the launch's when the recorder runs already,
\* and the second attempt's after a first one that connected.
Consulted(running, ls, chs) ==
    /\ \A i \in 1..MaxAttempts : (ls[i] # "ws_ready") => (chs[i] = "ok")
    /\ running => (ls[1] = "ws_ready")
    /\ (ls[1] = "ws_ready" /\ chs[1] = "ok") =>
          \A i \in 2..MaxAttempts : ls[i] = "ws_ready" /\ chs[i] = "ok"

Connect ==
    /\ pc = "idle"
    /\ snap' = Snap
    /\ pc' = "returned"
    /\ IF state # DISCONNECTED
       THEN /\ ret' = Ret("connect", TRUE, "already", NoPath)
            /\ hist' = NoHist
            /\ UNCHANGED <<state, client, im_client, obs_process,
                           obs_started_by_us, obs_running, obs_external>>
       ELSE \E ls \in [1..MaxAttempts -> LaunchOutcomes],
               chs \in [1..MaxAttempts -> ChannelOutcomes] :
              LET c0 == [state |-> CONNECTING, client |-> client,
                         im_client |-> im_client, process |-> obs_process,
                         started |-> obs_started_by_us, running |-> obs_running,
                         external |-> obs_external, launched |-> FALSE,
                         done |-> FALSE, result |-> FALSE, sent |-> {},
                         attempts |-> 0, notified |-> CONNECTING]
                  c == ConnectLoop(c0, 0, ls, chs)
              IN  /\ Consulted(obs_running, ls, chs)
                  /\ state' = c.state
                  /\ client' = c.client
                  /\ im_client' = c.im_client
                  /\ obs_process' = c.process
                  /\ obs_started_by_us' = c.started
                  /\ obs_running' = c.running
                  /\ obs_external' = c.external
                  /\ hist' = [NoHist EXCEPT !.sent = c.sent,
                                            !.attempts = c.attempts,
                                            !.notified = c.notified]
                  /\ ret' = Ret("connect", c.result, "", NoPath)
    /\ UNCHANGED <<recording_target, last_recording_path, recording_start_time,
                   fs, now, obs_rec, obs_vcam, obs_file, caller, stable_files,
                   pass_num, recording_file, final_path, mv, obs_seq,
                   video_recording_active, calls>>

-----------------------------------------------------------------------------
(* EnhancedOBSController.set_recording_target *)

\* The file names a caller passes, and what lines 1285-1289 make of them:
\* ".mp4" is appended unless the name ends with it.
FileNames == {[base |-> "m", ext |-> ""], [base |-> "m", ext |-> ".mp4"]}
WithExtension(fn) == IF fn.ext = ".mp4" THEN fn ELSE [fn EXCEPT !.ext = ".mp4"]

\* os.path.join(folder_path, filename): one folder and one base name are
\* modelled, so every target is the path TPath(0)
JoinPath(folder, fn) == [dir |-> folder, v |-> 0, sfx |-> ""]

TargetFor(folder, fn) ==
    [set |-> TRUE, folder |-> folder, filename |-> WithExtension(fn),
     full_path |-> JoinPath(folder, WithExtension(fn))]

SetRecordingTarget ==
    /\ pc = "idle"
    /\ snap' = Snap
    /\ pc' = "returned"
    /\ hist' = NoHist
    /\ \E fn \in FileNames, mk \in BOOLEAN :
          IF mk     \* os.makedirs succeeded
          THEN /\ recording_target' = TargetFor(TgtDir, fn)
               /\ ret' = Ret("set_target", TRUE, "", NoPath)
          ELSE /\ UNCHANGED recording_target
               /\ ret' = Ret("set_target", FALSE, "", NoPath)
    /\ UNCHANGED <<state, client, im_client, obs_process, obs_started_by_us,
                   last_recording_path, recording_start_time, fs, now,
                   obs_running, obs_rec, obs_vcam, obs_file, caller,
                   stable_files, pass_num, recording_file, final_path, mv, obs_seq, obs_external,
                   video_recording_active, calls>>

-----------------------------------------------------------------------------
(* The recorder, as the controller's RPCs meet it *)

\* sizes the recorder's new file may have when capture has just begun
InitialSizes == {MinSizeBytes - 2 * ChangeThreshold, MinSizeBytes}
\* what one write of the recorder adds to its file
GrowthSteps == {ChangeThreshold, 2 * ChangeThreshold}
MaxFileSize == MinSizeBytes + MaxGrowth * ChangeThreshold

-----------------------------------------------------------------------------
(* EnhancedOBSController.start_virtual_camera, from a state that allows it: *)
(* the start command (errors swallowed), then the poll loop.  act: the      *)
(* recorder's feed is active afterwards; seen: a poll saw it active before  *)
(* the timeout.  Both exits leave VIRTUAL_CAM_ACTIVE and return True.       *)

VcamWait(seen) == IF seen THEN 0 ELSE VirtualCamWaitTimeout

\* lines 976 and 978: the guard
VcamAllowed(s) == s \in {CONNECTED, VIRTUAL_CAM_ACTIVE}

\* the value start_virtual_camera returns: True at line 999 when a poll saw
\* the feed active, True at line 1009 when the loop ran out
StartVirtualCameraResult(seen) == TRUE

\* start_virtual_camera called on its own
StartVirtualCamera ==
    /\ pc = "idle"
    /\ snap' = Snap
    /\ pc' = "returned"
    /\ IF ~VcamAllowed(state)
       THEN /\ ret' = Ret("vcam", FALSE, "", NoPath)
            /\ hist' = NoHist
            /\ UNCHANGED <<state, now, obs_vcam>>
       ELSE \E vact \in BOOLEAN, vseen \in BOOLEAN :
              /\ vseen => (client /\ obs_running /\ (vact \/ obs_vcam))
              /\ vact => (client /\ obs_running)
              /\ obs_vcam' = (obs_vcam \/ vact)
              /\ state' = VIRTUAL_CAM_ACTIVE
              /\ now' = now + VcamWait(vseen)
              /\ hist' = [NoHist EXCEPT
                            !.sent = {"start_virtual_cam", "get_virtual_cam_status"},
                            !.expired = IF vseen THEN {} ELSE {"virtual_cam"},
                            !.notified = VIRTUAL_CAM_ACTIVE]
              /\ ret' = Ret("vcam", StartVirtualCameraResult(vseen), "", NoPath)
    /\ UNCHANGED <<client, im_client, obs_process, obs_started_by_us,
                   recording_target, last_recording_path, recording_start_time,
                   fs, obs_running, obs_external, obs_rec, obs_file, obs_seq,
                   caller, stable_files, pass_num, recording_file, final_path,
                   mv,
                   video_recording_active, calls>>

-----------------------------------------------------------------------------
(* EnhancedOBSController._check_obs_recording_ready *)

\* status: get_record_status raised, or what it reported; version: whether
\* get_version raised; disk: the disk-space check
ReadyStatus == {"raise", "answer"}
ReadyDisk == {"error", "low", "enough"}

CheckObsRecordingReady(status, active, version_ok, disk) ==
    IF status = "raise" THEN FALSE
    ELSE IF active THEN FALSE
    ELSE IF ~version_ok THEN FALSE
    ELSE IF disk = "low" THEN FALSE
    ELSE TRUE

ReadySent(status, active, version_ok) ==
    {"get_record_status"}
      \cup (IF status = "answer" /\ ~active THEN {"get_version"} ELSE {})
      \cup (IF status = "answer" /\ ~active /\ version_ok
            THEN {"get_record_directory"} ELSE {})

-----------------------------------------------------------------------------
(* EnhancedOBSController.start_recording *)

\* line 1052
StartAllowedLax(s) == s # DISCONNECTED
StartAllowed(s) == s \in {CONNECTED, VIRTUAL_CAM_ACTIVE}

StartRejected ==
    /\ ~StartAllowed(state)
    /\ ret' = Ret("start", FALSE, "OBS not connected", NoPath)
    /\ hist' = NoHist
    /\ UNCHANGED <<state, recording_target, last_recording_path,
                   recording_start_time, fs, now, obs_rec, obs_vcam, obs_file, obs_seq>>

\* lines 1057-1058 return before line 1075 clears last_recording_path
NotReadyClears(last) == NoPath
NotReadyKeeps(last) == last

StartNotReady ==
    /\ StartAllowed(state)
    /\ \E status \in ReadyStatus, version_ok \in BOOLEAN, disk \in ReadyDisk :
          /\ (status = "answer") => (client /\ obs_running)
          /\ (disk # "enough") => (status = "answer" /\ ~obs_rec /\ version_ok)
          /\ ~CheckObsRecordingReady(status, obs_rec, version_ok, disk)
          /\ hist' = [NoHist EXCEPT
                        !.sent = ReadySent(status, obs_rec, version_ok),
                        !.low_disk = disk = "low"]
    /\ ret' = Ret("start", FALSE, "OBS not ready for recording", NoPath)
    /\ last_recording_path' = NotReadyKeeps(last_recording_path)
    /\ UNCHANGED <<state, recording_target, recording_start_time, fs, now,
                   obs_rec, obs_vcam, obs_file, obs_seq>>

\* Past the pre-flight check: optional target, the virtual camera, the
\* start command, the settle delay and the status query.
\*   args: folder_path and filename were passed
\*   vact, vseen: see start_virtual_camera
\*   rpc: start_record raised / the recorder began capture / it accepted the
\*        command and did not begin; q: the status query raised or answered
\* lines 1084-1099: what the status query after the start command decides
AfterStartAssumed(active) ==
    [state |-> RECORDING, ok |-> TRUE, msg |-> "Recording started",
     event |-> TRUE]
AfterStart(active) ==
    IF active
    THEN [state |-> RECORDING, ok |-> TRUE, msg |-> "Recording started",
          event |-> TRUE]
    ELSE [state |-> CONNECTED, ok |-> FALSE, msg |-> "Recording did not start",
          event |-> FALSE]

StartProceeds ==
    /\ StartAllowed(state)
    /\ client /\ obs_running
    /\ \E disk \in {"error", "enough"}, args \in BOOLEAN, fn \in FileNames,
          vact \in BOOLEAN, vseen \in BOOLEAN,
          rpc \in {"raise", "began", "silent"}, q \in {"raise", "answer"},
          sz \in InitialSizes :
          LET arm == state # VIRTUAL_CAM_ACTIVE
              t0 == IF arm THEN now + VcamWait(vseen) ELSE now
              began == rpc = "began"
              p == RPath(obs_seq + 1)
          IN
          /\ CheckObsRecordingReady("answer", obs_rec, TRUE, disk)
          /\ arm \/ (~vact /\ ~vseen)
          /\ vseen => vact
          /\ began => obs_seq < NumRecFiles
          /\ began \/ sz = MinSizeBytes
          /\ (rpc = "raise") => (q = "raise")
          /\ recording_target' =
                IF args THEN TargetFor(TgtDir, fn) ELSE recording_target
          /\ args \/ fn = [base |-> "m", ext |-> ""]
          /\ obs_vcam' = IF arm /\ vact THEN TRUE ELSE obs_vcam
          /\ last_recording_path' = NoPath
          /\ recording_start_time' = t0
          /\ obs_rec' = began
          /\ obs_file' = IF began THEN p ELSE obs_file
          /\ obs_seq' = IF began THEN obs_seq + 1 ELSE obs_seq
          /\ fs' = IF began THEN [fs EXCEPT ![p] = File(sz, t0, TRUE, "rec")] ELSE fs
          /\ hist' = [NoHist EXCEPT
                        !.sent =
                           ReadySent("answer", obs_rec, TRUE)
                             \cup (IF arm THEN {"start_virtual_cam", "get_virtual_cam_status"}
                                   ELSE {})
                             \cup {"start_record"}
                             \cup (IF rpc # "raise" THEN {"get_record_status"} ELSE {}),
                        !.expired = IF arm /\ ~vseen THEN {"virtual_cam"} ELSE {},
                        !.notified =
                           IF rpc = "raise" \/ q = "raise" THEN ERROR
                           ELSE IF AfterStart(began).event THEN AfterStart(began).state
                           ELSE IF arm THEN VIRTUAL_CAM_ACTIVE
                           ELSE "none"]
          /\ IF rpc = "raise" \/ q = "raise"
             THEN /\ state' = ERROR
                  /\ now' = IF rpc = "raise" THEN t0 ELSE t0 + StartSettle
                  /\ ret' = Ret("start", FALSE, "exception", NoPath)
             ELSE /\ now' = t0 + StartSettle
                  /\ state' = AfterStart(began).state
                  /\ ret' = Ret("start", AfterStart(began).ok,
                                AfterStart(began).msg, NoPath)

StartRecording ==
    /\ pc = "idle"
    /\ snap' = Snap
    /\ pc' = "returned"
    /\ \/ StartRejected
       \/ StartNotReady
       \/ StartProceeds
    /\ UNCHANGED <<client, im_client, obs_process, obs_started_by_us,
                   obs_running, caller, stable_files, pass_num, recording_file,
                   final_path, mv, obs_external,
                   video_recording_active, calls>>

-----------------------------------------------------------------------------
(* EnhancedOBSController.stop_recording *)

\* A return of stop_recording: to the caller of the API, or back into
\* disconnect, which ignores the result.
StopReturns(ok, msg, p) ==
    IF caller = "disconnect"
    THEN /\ pc' = "disc_rest"
         /\ UNCHANGED ret
    ELSE /\ pc' = "returned"
         /\ ret' = Ret("stop", ok, msg, p)

\* lines 1112-1117
StopRecording ==
    /\ pc = "idle"
    /\ snap' = Snap
    /\ hist' = IF state = RECORDING THEN [NoHist EXCEPT !.notified = STOPPING]
               ELSE NoHist
    /\ IF state # RECORDING
       THEN /\ pc' = "returned"
            /\ ret' = Ret("stop", FALSE, "Not recording", NoPath)
            /\ UNCHANGED <<state, caller>>
       ELSE /\ state' = STOPPING
            /\ caller' = "api"
            /\ pc' = "stop_rpc"
            /\ UNCHANGED ret
    /\ UNCHANGED <<client, im_client, obs_process, obs_started_by_us,
                   recording_target, last_recording_path, recording_start_time,
                   fs, now, obs_running, obs_rec, obs_vcam, obs_file,
                   stable_files, pass_num, recording_file, final_path, mv, obs_seq, obs_external,
                   video_recording_active, calls>>

\* lines 1123 and 1198-1202: the stop command; it raises when the channel
\* fails or the recorder is not capturing
StopRpc ==
    /\ pc = "stop_rpc"
    /\ \E ok \in BOOLEAN :
          /\ ok => (client /\ obs_running /\ obs_rec)
          /\ hist' = [hist EXCEPT !.sent = @ \cup {"stop_record"},
                                  !.notified = IF ok THEN @ ELSE ERROR,
                                  !.fault = ~ok]
          /\ IF ok
             THEN /\ pc' = "stop_wait"
                  /\ UNCHANGED <<state, ret>>
             ELSE /\ state' = ERROR
                  /\ StopReturns(FALSE, "exception", NoPath)
    /\ UNCHANGED <<client, im_client, obs_process, obs_started_by_us,
                   recording_target, last_recording_path, recording_start_time,
                   fs, now, obs_running, obs_rec, obs_vcam, obs_file, caller,
                   stable_files, pass_num, recording_file, final_path, mv,
                   snap, obs_seq, obs_external,
                   video_recording_active, calls>>

\* FileIntegrityManager.wait_for_recording_stop, lines 113-127: the poll
\* loop.  k is the attempt whose status query reports the output inactive
\* (StopTimeout: none does), lat the seconds one status query takes.
RECURSIVE WaitLoop(_, _, _, _)
WaitLoop(attempt, elapsed, k, lat) ==
    IF attempt = StopTimeout THEN [exit |-> "exhausted", elapsed |-> elapsed]
    ELSE IF attempt = k THEN [exit |-> "confirmed", elapsed |-> elapsed + lat]
    ELSE IF elapsed + lat > StopTimeout
         THEN [exit |-> "timeout", elapsed |-> elapsed + lat]
    ELSE WaitLoop(attempt + 1, elapsed + lat + PollInterval, k, lat)

ConfirmAt == {0, StopTimeout}
RpcLatency == {0, 1}

\* wait_for_recording_stop: [ok, dt, confirmed]
WaitForRecordingStop(has_client, k, lat) ==
    IF ~has_client
    THEN [ok |-> TRUE, dt |-> MinimumFinalizeTime, confirmed |-> FALSE]
    ELSE LET w == WaitLoop(0, 0, k, lat)
         IN  IF w.exit = "timeout"
             THEN [ok |-> FALSE, dt |-> w.elapsed, confirmed |-> FALSE]
             ELSE [ok |-> TRUE, dt |-> w.elapsed + MinimumFinalizeTime,
                   confirmed |-> w.exit = "confirmed"]

\* lines 1126-1131
StopWait ==
    /\ pc = "stop_wait"
    /\ \E k \in ConfirmAt, lat \in RpcLatency :
          LET w == WaitForRecordingStop(im_client, k, lat)
          IN  /\ im_client \/ (k = 0 /\ lat = 0)
              /\ (k = 0) => (lat = 0)
              /\ now' = now + w.dt
              /\ obs_rec' = IF w.confirmed THEN FALSE ELSE obs_rec
              /\ hist' = [hist EXCEPT
                            !.sent = @ \cup (IF im_client THEN {"get_record_status"}
                                             ELSE {}),
                            !.expired = IF im_client /\ ~w.confirmed
                                        THEN {"recording_stop"} ELSE {},
                            !.fault = ~w.confirmed]
              /\ IF w.ok
                 THEN /\ pc' = "stop_vcam"
                      /\ UNCHANGED <<state, ret>>
                 ELSE /\ state' = ERROR
                      /\ StopReturns(FALSE, "Recording stop verification failed", NoPath)
    /\ UNCHANGED <<client, im_client, obs_process, obs_started_by_us,
                   recording_target, last_recording_path, recording_start_time,
                   fs, obs_running, obs_vcam, obs_file, caller, stable_files,
                   pass_num, recording_file, final_path, mv, snap, obs_seq, obs_external,
                   video_recording_active, calls>>

\* line 1148: the state when no recording file is found
StateAfterNoFileKept(s) == s
StateAfterNoFile(s) == CONNECTED

\* lines 1133-1141 and 1209-1214: the virtual camera is stopped when the
\* recorder reports it active; then the recorder is asked for its directory
StopVcam ==
    /\ pc = "stop_vcam"
    /\ \E q \in {"raise", "answer"}, d \in {"raise", "missing", "ok"} :
          LET stops == q = "answer" /\ obs_vcam
          IN  /\ (q = "answer" \/ d # "raise") => (client /\ obs_running)
              /\ obs_vcam' = IF stops THEN FALSE ELSE obs_vcam
              /\ now' = IF stops THEN now + VcamStopSettle ELSE now
              /\ hist' = [hist EXCEPT
                            !.sent = @ \cup {"get_virtual_cam_status", "get_record_directory"}
                                       \cup (IF stops THEN {"stop_virtual_cam"} ELSE {}),
                            !.found = IF d = "ok" THEN @ ELSE "nothing",
                            !.fault = @ \/ q = "raise" \/ d # "ok"]
              /\ IF d = "ok"
                 THEN /\ pc' = "find_scan"
                      /\ UNCHANGED <<state, ret>>
                 ELSE /\ state' = StateAfterNoFile(state)
                      /\ StopReturns(FALSE, "No recording file found", NoPath)
    /\ stable_files' = [p \in RecPaths |-> NoEntry]
    /\ pass_num' = 0
    /\ UNCHANGED <<client, im_client, obs_process, obs_started_by_us,
                   recording_target, last_recording_path, recording_start_time,
                   fs, obs_running, obs_rec, obs_file, caller, recording_file,
                   final_path, mv, snap, obs_seq, obs_external,
                   video_recording_active, calls>>

-----------------------------------------------------------------------------
(* FileIntegrityManager.find_stable_recording_file *)

\* lines 210-220: the video files modified after the session began
CurrentFiles(f, start) ==
    {p \in RecPaths : f[p].ex /\ f[p].mtime > start - StableBuffer}

\* _file_changed, lines 248-254
FileChangedAlways(f, p, previous_size) == TRUE
FileChanged(f, p, previous_size) ==
    IF ~f[p].ex THEN TRUE
    ELSE Abs(f[p].size - previous_size) > ChangeThreshold

\* the files one pass removes from stable_files, lines 227-232
DroppedBy(stable, f, start, pass) ==
    IF pass = 0 THEN {}
    ELSE {p \in CurrentFiles(f, start) :
             stable[p].in /\ FileChanged(f, p, stable[p].size)}

\* one pass of the loop, lines 207-235
StablePass(stable, f, start, pass) ==
    [p \in RecPaths |->
        IF pass = 0
        THEN IF p \in CurrentFiles(f, start) THEN Entry(f[p]) ELSE NoEntry
        ELSE IF p \in DroppedBy(stable, f, start, pass) THEN NoEntry
        ELSE IF p \in CurrentFiles(f, start) /\ ~stable[p].in THEN Entry(f[p])
        ELSE stable[p]]

\* lines 241-246: max(stable_files.keys(), key = mtime when first tracked)
StableSet(stable) == {p \in RecPaths : stable[p].in}
LatestStable(stable) ==
    {p \in StableSet(stable) :
        \A q \in StableSet(stable) : stable[q].mtime <= stable[p].mtime}

\* _find_latest_recording_safe, lines 1226-1245: the fallback scan
FallbackFiles(f, start) ==
    {p \in RecPaths : f[p].ex /\ f[p].mtime > start - FallbackBuffer /\ f[p].mtime > 0}
LatestFallback(f, start) ==
    {p \in FallbackFiles(f, start) :
        \A q \in FallbackFiles(f, start) : f[q].mtime <= f[p].mtime}

\* One pass; after the last one the result of find_stable_recording_file
\* and, when it is None, of the fallback scan (lines 1217-1247).
FindScan ==
    /\ pc = "find_scan"
    /\ LET st == StablePass(stable_files, fs, recording_start_time, pass_num)
           gone == DroppedBy(stable_files, fs, recording_start_time, pass_num)
       IN  /\ stable_files' = st
           /\ IF pass_num < StablePasses - 1
              THEN /\ pc' = "find_sleep"
                   /\ hist' = [hist EXCEPT !.dropped = @ \cup gone]
                   /\ UNCHANGED <<state, ret, recording_file>>
              ELSE IF StableSet(st) # {}
              THEN /\ \E p \in LatestStable(st) : recording_file' = p
                   /\ hist' = [hist EXCEPT !.dropped = @ \cup gone, !.found = "stable"]
                   /\ pc' = "stop_verify"
                   /\ UNCHANGED <<state, ret>>
              ELSE IF FallbackFiles(fs, recording_start_time) # {}
              THEN /\ \E p \in LatestFallback(fs, recording_start_time) :
                         recording_file' = p
                   /\ hist' = [hist EXCEPT !.dropped = @ \cup gone, !.found = "fallback"]
                   /\ pc' = "stop_verify"
                   /\ UNCHANGED <<state, ret>>
              ELSE /\ hist' = [hist EXCEPT !.dropped = @ \cup gone, !.found = "nothing"]
                   /\ state' = StateAfterNoFile(state)
                   /\ StopReturns(FALSE, "No recording file found", NoPath)
                   /\ UNCHANGED recording_file
    /\ UNCHANGED <<client, im_client, obs_process, obs_started_by_us,
                   recording_target, last_recording_path, recording_start_time,
                   fs, now, obs_running, obs_rec, obs_vcam, obs_file, caller,
                   pass_num, final_path, mv, snap, obs_seq, obs_external,
                   video_recording_active, calls>>

\* line 238
FindSleep ==
    /\ pc = "find_sleep"
    /\ now' = now + PassInterval
    /\ pass_num' = pass_num + 1
    /\ pc' = "find_scan"
    /\ UNCHANGED <<state, client, im_client, obs_process, obs_started_by_us,
                   recording_target, last_recording_path, recording_start_time,
                   fs, obs_running, obs_rec, obs_vcam, obs_file, caller,
                   stable_files, recording_file, final_path, mv, ret, snap,
                   hist, obs_seq, obs_external,
                   video_recording_active, calls>>

-----------------------------------------------------------------------------
(* stop_recording, steps 5 and 6, with _move_to_target_safe *)

\* lines 1263-1268: "<base>_<timestamp><ext>" in the target's folder; a
\* timestamped name is one no file has yet
FreeConflictNames(f) == {n \in 1..MaxConflicts : ~f[TPath(n)].ex}
ConflictPath(f) ==
    TPath(CHOOSE n \in FreeConflictNames(f) : \A m \in FreeConflictNames(f) : n <= m)

MoveTargetPathRenamed(f, target) == ConflictPath(f)
MoveTargetPath(f, target) ==
    IF f[target.full_path].ex THEN ConflictPath(f) ELSE target.full_path

\* lines 1152-1164
StopVerify ==
    /\ pc = "stop_verify"
    /\ IF ~VerifyComplete(fs, now, recording_file)
       THEN /\ last_recording_path' = recording_file
            /\ state' = CONNECTED
            /\ StopReturns(FALSE, "Recording corrupted", NoPath)
            /\ UNCHANGED <<final_path, mv, hist>>
       ELSE IF recording_target.set
       THEN /\ fs[recording_target.full_path].ex => FreeConflictNames(fs) # {}
            /\ mv' = [NoMv EXCEPT !.src = recording_file,
                                  !.tgt = MoveTargetPath(fs, recording_target)]
            /\ hist' = [hist EXCEPT !.moved = TRUE]
            /\ pc' = "mv_check"
            /\ UNCHANGED <<state, ret, last_recording_path, final_path>>
       ELSE /\ final_path' = recording_file
            /\ last_recording_path' = recording_file
            /\ pc' = "stop_final"
            /\ UNCHANGED <<state, ret, mv, hist>>
    /\ UNCHANGED <<client, im_client, obs_process, obs_started_by_us,
                   recording_target, recording_start_time, fs, now,
                   obs_running, obs_rec, obs_vcam, obs_file, caller,
                   stable_files, pass_num, recording_file, snap, obs_seq, obs_external,
                   video_recording_active, calls>>

\* lines 1166-1172 with 1273-1278: the result of the move
StopAfterMove ==
    /\ pc = "mv_done"
    /\ caller \in {"api", "disconnect"}
    /\ final_path' = IF mv.ok THEN mv.tgt ELSE recording_file
    /\ last_recording_path' = final_path'
    /\ pc' = "stop_final"
    /\ UNCHANGED <<state, client, im_client, obs_process, obs_started_by_us,
                   recording_target, recording_start_time, fs, now,
                   obs_running, obs_rec, obs_vcam, obs_file, caller,
                   stable_files, pass_num, recording_file, mv, ret, snap,
                   hist, obs_seq, obs_external,
                   video_recording_active, calls>>

\* line 1194: the target is consumed by a successful stop
ClearedTargetKept(target) == target
ClearedTarget(target) == NoTarget

\* lines 1174-1196
StopFinal ==
    /\ pc = "stop_final"
    /\ IF ~fs[final_path].ex
       THEN /\ state' = ERROR
            /\ StopReturns(FALSE, "Final file missing", NoPath)
            /\ UNCHANGED recording_target
       ELSE IF ~VerifyComplete(fs, now, final_path)
       THEN /\ state' = ERROR
            /\ StopReturns(FALSE, "File corrupted after move", NoPath)
            /\ UNCHANGED recording_target
       ELSE /\ state' = CONNECTED
            /\ recording_target' = ClearedTarget(recording_target)
            /\ StopReturns(TRUE, "", final_path)
    /\ hist' = [hist EXCEPT !.notified = IF state' = CONNECTED THEN CONNECTED ELSE @]
    /\ UNCHANGED <<client, im_client, obs_process, obs_started_by_us,
                   last_recording_path, recording_start_time, fs, now,
                   obs_running, obs_rec, obs_vcam, obs_file, caller,
                   stable_files, pass_num, recording_file, final_path, mv,
                   snap, obs_seq, obs_external,
                   video_recording_active, calls>>

-----------------------------------------------------------------------------
(* FileIntegrityManager.safe_move_file *)

\* Every return, lines 261-325: the result is kept in mv
MvReturns(ok, why) ==
    /\ pc' = "mv_done"
    /\ mv' = [mv EXCEPT !.ok = ok, !.fail = why]

\* lines 317-325: the handler removes the temporary file if there is one
ExceptCleanupKeepsTemp(f, tgt) == f
ExceptCleanup(f, tgt) == [f EXCEPT ![TempOf(tgt)] = NoFile]

\* lines 260-271: the source is there and complete, the folder can be made
MvCheck ==
    /\ pc = "mv_check"
    /\ \E makedirs_ok \in BOOLEAN :
          IF ~fs[mv.src].ex THEN
              makedirs_ok /\ MvReturns(FALSE, "source_missing")
          ELSE IF ~VerifyComplete(fs, now, mv.src) THEN
              makedirs_ok /\ MvReturns(FALSE, "source_invalid")
          ELSE IF ~makedirs_ok THEN
              MvReturns(FALSE, "makedirs")
          ELSE pc' = "mv_copy" /\ UNCHANGED mv
    /\ hist' = IF pc' = "mv_done" /\ mv'.fail = "makedirs"
               THEN [hist EXCEPT !.fault = TRUE] ELSE hist
    /\ UNCHANGED <<state, client, im_client, obs_process, obs_started_by_us,
                   recording_target, last_recording_path, recording_start_time,
                   fs, now, obs_running, obs_rec, obs_vcam, obs_file, caller,
                   stable_files, pass_num, recording_file, final_path, ret,
                   snap, obs_seq, obs_external,
                   video_recording_active, calls>>

\* shutil.copy2, line 277.  It copies content and modification time; it may
\* stop short (the source grew, the disk filled) with or without raising.
CopyOutcomes == {"ok", "short", "raise_partial", "raise_none"}
PartialOf(file) == [file EXCEPT !.size = @ - ChangeThreshold, !.id = "partial"]

CopyFileMoves(f, src, dst, o) ==
    CASE o = "ok" -> [f EXCEPT ![dst] = f[src], ![src] = NoFile]
      [] o \in {"short", "raise_partial"} -> [f EXCEPT ![dst] = PartialOf(f[src])]
      [] OTHER -> f
CopyFile(f, src, dst, o) ==
    CASE o = "ok" -> [f EXCEPT ![dst] = f[src]]
      [] o \in {"short", "raise_partial"} -> [f EXCEPT ![dst] = PartialOf(f[src])]
      [] OTHER -> f

MvCopy ==
    /\ pc = "mv_copy"
    /\ \E o \in CopyOutcomes :
          LET copied == CopyFile(fs, mv.src, TempOf(mv.tgt), o)
          IN  /\ hist' = [hist EXCEPT !.fault = @ \/ o # "ok"]
              /\ IF o \in {"raise_partial", "raise_none"}
                 THEN /\ fs' = ExceptCleanup(copied, mv.tgt)
                      /\ MvReturns(FALSE, "copy")
                 ELSE /\ fs' = copied
                      /\ pc' = "mv_verify_copy"
                      /\ UNCHANGED mv
    /\ UNCHANGED <<state, client, im_client, obs_process, obs_started_by_us,
                   recording_target, last_recording_path, recording_start_time,
                   now, obs_running, obs_rec, obs_vcam, obs_file, caller,
                   stable_files, pass_num, recording_file, final_path, ret,
                   snap, obs_seq, obs_external,
                   video_recording_active, calls>>

\* lines 286-288: what is removed when the sizes differ
MismatchCleanupRemovesTarget(f, tgt) == [f EXCEPT ![tgt] = NoFile, ![TempOf(tgt)] = NoFile]
MismatchCleanup(f, tgt) == [f EXCEPT ![TempOf(tgt)] = NoFile]

\* lines 279-288
MvVerifyCopy ==
    /\ pc = "mv_verify_copy"
    /\ UNCHANGED hist
    /\ IF ~fs[TempOf(mv.tgt)].ex
       THEN /\ MvReturns(FALSE, "no_temp")
            /\ UNCHANGED fs
       ELSE IF fs[mv.src].size # fs[TempOf(mv.tgt)].size
       THEN /\ fs' = MismatchCleanup(fs, mv.tgt)
            /\ MvReturns(FALSE, "size")
       ELSE /\ pc' = "mv_backup"
            /\ UNCHANGED <<fs, mv>>
    /\ UNCHANGED <<state, client, im_client, obs_process, obs_started_by_us,
                   recording_target, last_recording_path, recording_start_time,
                   now, obs_running, obs_rec, obs_vcam, obs_file, caller,
                   stable_files, pass_num, recording_file, final_path, ret,
                   snap, obs_seq, obs_external,
                   video_recording_active, calls>>

\* shutil.move / os.rename of a file onto a path
MoveFile(f, src, dst) == [f EXCEPT ![dst] = f[src], ![src] = NoFile]

\* lines 291-295: an existing file at the target is renamed aside
MvBackup ==
    /\ pc = "mv_backup"
    /\ \E move_ok \in BOOLEAN :
          /\ hist' = [hist EXCEPT !.fault = @ \/ ~move_ok]
          /\ IF ~fs[mv.tgt].ex
             THEN /\ move_ok
                  /\ pc' = "mv_rename"
                  /\ UNCHANGED <<fs, mv>>
             ELSE IF move_ok
             THEN /\ fs' = MoveFile(fs, mv.tgt, BackupOf(mv.tgt))
                  /\ mv' = [mv EXCEPT !.backup = TRUE]
                  /\ pc' = "mv_rename"
             ELSE /\ fs' = ExceptCleanup(fs, mv.tgt)
                  /\ pc' = "mv_done"
                  /\ mv' = [mv EXCEPT !.backup = TRUE, !.ok = FALSE,
                                      !.fail = "backup"]
    /\ UNCHANGED <<state, client, im_client, obs_process, obs_started_by_us,
                   recording_target, last_recording_path, recording_start_time,
                   now, obs_running, obs_rec, obs_vcam, obs_file, caller,
                   stable_files, pass_num, recording_file, final_path, ret,
                   snap, obs_seq, obs_external,
                   video_recording_active, calls>>

\* line 297: os.rename(temp_target, target_path), and the handler when it
\* raises
MvRename ==
    /\ pc = "mv_rename"
    /\ \E rename_ok \in BOOLEAN :
          /\ hist' = [hist EXCEPT !.fault = @ \/ ~rename_ok]
          /\ IF rename_ok
             THEN /\ fs' = MoveFile(fs, TempOf(mv.tgt), mv.tgt)
                  /\ pc' = "mv_final"
                  /\ UNCHANGED mv
             ELSE /\ fs' = ExceptCleanup(fs, mv.tgt)
                  /\ MvReturns(FALSE, "rename")
    /\ UNCHANGED <<state, client, im_client, obs_process, obs_started_by_us,
                   recording_target, last_recording_path, recording_start_time,
                   now, obs_running, obs_rec, obs_vcam, obs_file, caller,
                   stable_files, pass_num, recording_file, final_path, ret,
                   snap, obs_seq, obs_external,
                   video_recording_active, calls>>

\* lines 299-315: the final file is verified; if it is not valid a backup is
\* moved back; if it is, the source is removed (a failure to remove it is
\* only logged)
MvFinal ==
    /\ pc = "mv_final"
    /\ \E remove_ok \in BOOLEAN :
          /\ hist' = [hist EXCEPT !.fault = @ \/ ~remove_ok]
          /\ IF ~VerifyComplete(fs, now, mv.tgt)
             THEN /\ remove_ok
                  /\ fs' = IF mv.backup /\ fs[BackupOf(mv.tgt)].ex
                           THEN MoveFile(fs, BackupOf(mv.tgt), mv.tgt)
                           ELSE fs
                  /\ MvReturns(FALSE, "final")
             ELSE /\ fs' = IF remove_ok THEN [fs EXCEPT ![mv.src] = NoFile]
                           ELSE fs
                  /\ MvReturns(TRUE, "none")
    /\ UNCHANGED <<state, client, im_client, obs_process, obs_started_by_us,
                   recording_target, last_recording_path, recording_start_time,
                   now, obs_running, obs_rec, obs_vcam, obs_file, caller,
                   stable_files, pass_num, recording_file, final_path, ret,
                   snap, obs_seq, obs_external,
                   video_recording_active, calls>>

\* safe_move_file called on its own: a file of the recorder's directory to
\* the target path
SafeMoveFile ==
    /\ pc = "idle"
    /\ \E src \in RecPaths :
          mv' = [NoMv EXCEPT !.src = src, !.tgt = TPath(0)]
    /\ caller' = "direct"
    /\ snap' = Snap
    /\ hist' = [NoHist EXCEPT !.moved = TRUE]
    /\ pc' = "mv_check"
    /\ UNCHANGED <<state, client, im_client, obs_process, obs_started_by_us,
                   recording_target, last_recording_path, recording_start_time,
                   fs, now, obs_running, obs_rec, obs_vcam, obs_file,
                   stable_files, pass_num, recording_file, final_path, ret, obs_seq, obs_external,
                   video_recording_active, calls>>

SafeMoveFileReturns ==
    /\ pc = "mv_done"
    /\ caller = "direct"
    /\ pc' = "returned"
    /\ ret' = Ret("move", mv.ok, mv.fail, IF mv.ok THEN mv.tgt ELSE NoPath)
    /\ UNCHANGED <<state, client, im_client, obs_process, obs_started_by_us,
                   recording_target, last_recording_path, recording_start_time,
                   fs, now, obs_running, obs_rec, obs_vcam, obs_file, caller,
                   stable_files, pass_num, recording_file, final_path, mv,
                   snap, hist, obs_seq, obs_external,
                   video_recording_active, calls>>

-----------------------------------------------------------------------------
(* EnhancedOBSController.disconnect *)

\* lines 1306-1308: a recording in progress is stopped first
Disconnect ==
    /\ pc = "idle"
    /\ snap' = Snap
    /\ hist' = IF state = RECORDING THEN [NoHist EXCEPT !.notified = STOPPING]
               ELSE NoHist
    /\ IF state = RECORDING
       THEN /\ state' = STOPPING
            /\ caller' = "disconnect"
            /\ pc' = "stop_rpc"
       ELSE /\ pc' = "disc_rest"
            /\ caller' = "disconnect"
            /\ UNCHANGED state
    /\ UNCHANGED <<client, im_client, obs_process, obs_started_by_us,
                   recording_target, last_recording_path, recording_start_time,
                   fs, now, obs_running, obs_rec, obs_vcam, obs_file,
                   stable_files, pass_num, recording_file, final_path, mv,
                   ret, obs_seq, obs_external,
                   video_recording_active, calls>>

\* lines 1343-1344: "if self.client: self.client = None"
DropClientNever(c) == c
DropClient(c) == FALSE

\* lines 1319 and 821: the guard of every shutdown, terminate and kill
Owned(started, process) == started /\ process

\* lines 1310-1353 with _shutdown_obs_gracefully: settings are saved; when
\* the controller holds a process it launched, the recorder the client is
\* connected to is told to stop its outputs and to quit (lines 763-818), and
\* while any recorder runs the process handle is terminated (lines 821-834),
\* which acts on the launched process only; the client is dropped.
\*   rpc_ok: the recorder answers the RPCs; exits: the recorder is gone
\*   afterwards
DisconnectRest ==
    /\ pc = "disc_rest"
    /\ \E rpc_ok \in BOOLEAN, exits \in BOOLEAN :
          LET owned == Owned(obs_started_by_us, obs_process)
              reach == rpc_ok /\ client /\ obs_running
              hit == owned /\ obs_running /\ (reach \/ ~obs_external)
              quit == hit /\ exits
          IN  /\ rpc_ok => (client /\ obs_running)
              /\ exits => hit
              /\ obs_running' = IF quit THEN FALSE ELSE obs_running
              /\ obs_external' = IF quit THEN FALSE ELSE obs_external
              /\ obs_rec' = IF quit \/ (owned /\ reach) THEN FALSE ELSE obs_rec
              /\ obs_vcam' = IF quit \/ (owned /\ reach) THEN FALSE ELSE obs_vcam
              /\ obs_file' = IF quit THEN NoPath ELSE obs_file
              /\ hist' = [hist EXCEPT
                            !.sent = @ \cup (IF client THEN {"save"} ELSE {})
                                       \cup (IF owned /\ client THEN {"shutdown"} ELSE {}),
                            !.killed = hit,
                            !.notified = DISCONNECTED]
    /\ client' = DropClient(client)
    /\ state' = DISCONNECTED
    /\ pc' = "returned"
    /\ ret' = Ret("disconnect", TRUE, "", NoPath)
    /\ UNCHANGED <<im_client, obs_process, obs_started_by_us, recording_target,
                   last_recording_path, recording_start_time, fs, now, caller,
                   stable_files, pass_num, recording_file, final_path, mv,
                   snap, obs_seq,
                   video_recording_active, calls>>

-----------------------------------------------------------------------------
(* The environment: the recorder and the filesystem *)

\* positions inside stop_recording at which the recorder is seen to act:
\* between the stabilization passes, before the file is verified, and
\* before the final verification
StopSteps == {"find_sleep", "stop_verify", "stop_final"}

\* the recorder writes to the file it holds open: while it captures, and
\* while it finalizes the file after the stop command
EnvWrite ==
    /\ \/ pc = "idle" /\ obs_rec
       \/ pc \in StopSteps
    /\ obs_file # NoPath
    /\ fs[obs_file].ex
    /\ hist' = IF pc \in StopSteps THEN [hist EXCEPT !.fault = TRUE] ELSE hist
    /\ \E d \in GrowthSteps :
          /\ fs[obs_file].size + d <= MaxFileSize
          /\ fs' = [fs EXCEPT ![obs_file].size = @ + d, ![obs_file].mtime = now]
    /\ UNCHANGED <<state, client, im_client, obs_process, obs_started_by_us,
                   recording_target, last_recording_path, recording_start_time,
                   now, obs_running, obs_rec, obs_vcam, obs_file, pc, caller,
                   stable_files, pass_num, recording_file, final_path, mv, ret,
                   snap, obs_seq, obs_external,
                   video_recording_active, calls>>

\* the recorder has finalized its file and closes it
EnvFinalized ==
    /\ pc \in StopSteps
    /\ obs_file # NoPath
    /\ ~obs_rec
    /\ obs_file' = NoPath
    /\ UNCHANGED <<state, client, im_client, obs_process, obs_started_by_us,
                   recording_target, last_recording_path, recording_start_time,
                   fs, now, obs_running, obs_rec, obs_vcam, pc, caller,
                   stable_files, pass_num, recording_file, final_path, mv, ret,
                   snap, hist, obs_seq, obs_external,
                   video_recording_active, calls>>

\* capture ends on the recorder's side (stopped by hand, disk full)
EnvRecorderStops ==
    /\ pc = "idle"
    /\ obs_rec
    /\ obs_rec' = FALSE
    /\ UNCHANGED <<state, client, im_client, obs_process, obs_started_by_us,
                   recording_target, last_recording_path, recording_start_time,
                   fs, now, obs_running, obs_vcam, obs_file, pc, caller,
                   stable_files, pass_num, recording_file, final_path, mv, ret,
                   snap, hist, obs_seq, obs_external,
                   video_recording_active, calls>>

\* The recorder process ends (closed by hand, crashed).  The controller is
\* not connected: a client is made against the instance that runs at the
\* time of connect.
EnvRecorderExits ==
    /\ pc = "idle"
    /\ obs_running /\ ~client
    /\ obs_running' = FALSE
    /\ obs_external' = FALSE
    /\ obs_rec' = FALSE
    /\ obs_vcam' = FALSE
    /\ obs_file' = NoPath
    /\ UNCHANGED <<state, client, im_client, obs_process, obs_started_by_us,
                   recording_target, last_recording_path, recording_start_time,
                   fs, now, pc, caller, stable_files, pass_num, recording_file,
                   final_path, mv, ret, snap, hist, obs_seq,
                   video_recording_active, calls>>

\* somebody else starts the recorder
EnvExternalStart ==
    /\ pc = "idle"
    /\ ~obs_running /\ ~client
    /\ obs_running' = TRUE
    /\ obs_external' = TRUE
    /\ UNCHANGED <<state, client, im_client, obs_process, obs_started_by_us,
                   recording_target, last_recording_path, recording_start_time,
                   fs, now, obs_rec, obs_vcam, obs_file, pc, caller,
                   stable_files, pass_num, recording_file, final_path, mv, ret,
                   snap, hist, obs_seq,
                   video_recording_active, calls>>

\* a fault of the target volume: the file just renamed into place can no
\* longer be read
EnvDamage ==
    /\ pc = "mv_final"
    /\ fs[mv.tgt].ex /\ fs[mv.tgt].ok
    /\ fs' = [fs EXCEPT ![mv.tgt].ok = FALSE]
    /\ hist' = [hist EXCEPT !.fault = TRUE]
    /\ UNCHANGED <<state, client, im_client, obs_process, obs_started_by_us,
                   recording_target, last_recording_path, recording_start_time,
                   now, obs_running, obs_rec, obs_vcam, obs_file, pc, caller,
                   stable_files, pass_num, recording_file, final_path, mv, ret,
                   snap, obs_seq, obs_external,
                   video_recording_active, calls>>


(* Two callers on one controller.  Each caller runs start_recording or         *)
(* stop_recording on a thread of its own; a step is the code between two       *)
(* points where the interpreter may switch threads.  The recorder answers      *)
(* every request and no file operation fails.                                  *)

\* the variables that no step of a concurrent caller assigns
RaceUntouched ==
    UNCHANGED <<obs_process, obs_started_by_us, fs, now, obs_running,
                obs_external, obs_file, obs_seq, pc, caller, stable_files,
                pass_num, recording_file, final_path, mv, ret, snap, hist,
                video_recording_active>>

Call(o, a, i) == [op |-> o, at |-> a, issued |-> i]

InitRace ==
    /\ InitController
    /\ obs_running = TRUE
    /\ obs_external = TRUE
    /\ fs = EmptyFs

\* connect(), the recorder already running and answering, no other caller
RaceConnect ==
    /\ state = DISCONNECTED
    /\ \A t \in Threads : calls[t] = NoCall
    /\ state' = CONNECTED
    /\ client' = TRUE
    /\ im_client' = TRUE
    /\ UNCHANGED <<recording_target, last_recording_path,
                   recording_start_time, obs_rec, obs_vcam, calls>>
    /\ RaceUntouched

\* set_recording_target(folder, filename), no caller running
RaceSetTarget ==
    /\ state \in {CONNECTED, VIRTUAL_CAM_ACTIVE}
    /\ \A t \in Threads : calls[t] = NoCall
    /\ ~recording_target.set
    /\ \E fn \in FileNames : recording_target' = TargetFor(TgtDir, fn)
    /\ UNCHANGED <<state, client, im_client, last_recording_path,
                   recording_start_time, obs_rec, obs_vcam, calls>>
    /\ RaceUntouched

\* a caller enters start_recording or stop_recording
RaceCall ==
    \E t \in Threads, o \in {"start", "stop"} :
        /\ client
        /\ calls[t] = NoCall
        /\ calls' = [calls EXCEPT ![t] = Call(o, "check", FALSE)]
        /\ UNCHANGED <<state, client, im_client, recording_target,
                       last_recording_path, recording_start_time, obs_rec,
                       obs_vcam>>
        /\ RaceUntouched

\* start_recording: the test of self.state
RaceStartCheck ==
    \E t \in Threads :
        /\ calls[t] = Call("start", "check", FALSE)
        /\ calls' = [calls EXCEPT ![t] =
                        IF state \in {CONNECTED, VIRTUAL_CAM_ACTIVE}
                        THEN Call("start", "ready", FALSE)
                        ELSE NoCall]
        /\ UNCHANGED <<state, client, im_client, recording_target,
                       last_recording_path, recording_start_time, obs_rec,
                       obs_vcam>>
        /\ RaceUntouched

\* start_recording: _check_obs_recording_ready asks the recorder whether it
\* is capturing
RaceStartReady ==
    \E t \in Threads :
        /\ calls[t] = Call("start", "ready", FALSE)
        /\ calls' = [calls EXCEPT ![t] =
                        IF obs_rec THEN NoCall
                        ELSE Call("start", "vcam", FALSE)]
        /\ UNCHANGED <<state, client, im_client, recording_target,
                       last_recording_path, recording_start_time, obs_rec,
                       obs_vcam>>
        /\ RaceUntouched

\* start_recording: start_virtual_camera unless the state says it is active
RaceStartVcam ==
    \E t \in Threads :
        /\ calls[t] = Call("start", "vcam", FALSE)
        /\ IF state # VIRTUAL_CAM_ACTIVE /\ VcamAllowed(state)
           THEN /\ state' = VIRTUAL_CAM_ACTIVE
                /\ obs_vcam' = TRUE
           ELSE UNCHANGED <<state, obs_vcam>>
        /\ calls' = [calls EXCEPT ![t] = Call("start", "rpc", FALSE)]
        /\ UNCHANGED <<client, im_client, recording_target,
                       last_recording_path, recording_start_time, obs_rec>>
        /\ RaceUntouched

\* start_recording: client.start_record(); a recorder that is capturing
\* already may refuse the request, and the handler then ends in ERROR
RaceStartRpc ==
    \E t \in Threads, refused \in BOOLEAN :
        /\ calls[t] = Call("start", "rpc", FALSE)
        /\ refused => obs_rec
        /\ last_recording_path' = NoPath
        /\ recording_start_time' = now
        /\ obs_rec' = TRUE
        /\ state' = IF refused THEN ERROR ELSE state
        /\ calls' = [calls EXCEPT ![t] =
                        IF refused THEN NoCall
                        ELSE Call("start", "status", TRUE)]
        /\ UNCHANGED <<client, im_client, recording_target, obs_vcam>>
        /\ RaceUntouched

\* start_recording: get_record_status() after the settle delay, and return
RaceStartStatus ==
    \E t \in Threads :
        /\ calls[t] = Call("start", "status", TRUE)
        /\ state' = IF obs_rec THEN RECORDING ELSE CONNECTED
        /\ calls' = [calls EXCEPT ![t] = NoCall]
        /\ UNCHANGED <<client, im_client, recording_target,
                       last_recording_path, recording_start_time, obs_rec,
                       obs_vcam>>
        /\ RaceUntouched

\* stop_recording: the test of self.state
RaceStopCheck ==
    \E t \in Threads :
        /\ calls[t] = Call("stop", "check", FALSE)
        /\ calls' = [calls EXCEPT ![t] =
                        IF state = RECORDING
                        THEN Call("stop", "mark", FALSE)
                        ELSE NoCall]
        /\ UNCHANGED <<state, client, im_client, recording_target,
                       last_recording_path, recording_start_time, obs_rec,
                       obs_vcam>>
        /\ RaceUntouched

\* stop_recording: self.state = STOPPING
RaceStopMark ==
    \E t \in Threads :
        /\ calls[t] = Call("stop", "mark", FALSE)
        /\ state' = STOPPING
        /\ calls' = [calls EXCEPT ![t] = Call("stop", "rpc", FALSE)]
        /\ UNCHANGED <<client, im_client, recording_target,
                       last_recording_path, recording_start_time, obs_rec,
                       obs_vcam>>
        /\ RaceUntouched

\* stop_recording: client.stop_record(); a recorder that is not capturing
\* may refuse the request, and the handler then ends in ERROR
RaceStopRpc ==
    \E t \in Threads, refused \in BOOLEAN :
        /\ calls[t] = Call("stop", "rpc", FALSE)
        /\ refused => ~obs_rec
        /\ obs_rec' = FALSE
        /\ state' = IF refused THEN ERROR ELSE state
        /\ calls' = [calls EXCEPT ![t] =
                        IF refused THEN NoCall
                        ELSE Call("stop", "rest", TRUE)]
        /\ UNCHANGED <<client, im_client, recording_target,
                       last_recording_path, recording_start_time, obs_vcam>>
        /\ RaceUntouched

\* stop_recording: the wait, the virtual camera, the search for the file and
\* its relocation; found says whether the search returned a file
RaceStopRest ==
    \E t \in Threads, found \in BOOLEAN :
        /\ calls[t] = Call("stop", "rest", TRUE)
        /\ obs_vcam' = FALSE
        /\ state' = IF found THEN CONNECTED ELSE StateAfterNoFile(state)
        /\ recording_target' =
              IF found THEN ClearedTarget(recording_target)
              ELSE recording_target
        /\ calls' = [calls EXCEPT ![t] = NoCall]
        /\ UNCHANGED <<client, im_client, last_recording_path,
                       recording_start_time, obs_rec>>
        /\ RaceUntouched

-----------------------------------------------------------------------------
(* Specifications *)

\* the controller, driven through its public operations
Next ==
    \/ Connect
    \/ SetRecordingTarget
    \/ StartRecording
    \/ StopRecording
    \/ StopRpc
    \/ StopWait
    \/ StopVcam
    \/ FindScan
    \/ FindSleep
    \/ StopVerify
    \/ MvCheck
    \/ MvCopy
    \/ MvVerifyCopy
    \/ MvBackup
    \/ MvRename
    \/ MvFinal
    \/ StopAfterMove
    \/ StopFinal
    \/ Return
    \/ EnvWrite
    \/ EnvFinalized
    \/ EnvRecorderStops
    \/ EnvDamage

Spec == Init /\ [][Next]_vars

\* safe_move_file on its own: a source file of any kind, a target path that
\* holds a file or none
SourceFiles ==
    {NoFile,
     File(MinSizeBytes, 0, TRUE, "rec"),
     File(MinSizeBytes - ChangeThreshold, 0, TRUE, "rec"),
     File(MinSizeBytes, Base - 1, TRUE, "rec"),
     File(MinSizeBytes, 0, FALSE, "rec")}

InitReloc ==
    /\ InitController
    /\ obs_running = FALSE
    /\ obs_external = FALSE
    /\ \E s \in SourceFiles, f \in {NoFile, FileF} :
          fs = [EmptyFs EXCEPT ![RPath(1)] = s, ![TPath(0)] = f]

NextReloc ==
    \/ SafeMoveFile
    \/ MvCheck
    \/ MvCopy
    \/ MvVerifyCopy
    \/ MvBackup
    \/ MvRename
    \/ MvFinal
    \/ SafeMoveFileReturns
    \/ EnvDamage
    \/ Return

SpecReloc == InitReloc /\ [][NextReloc]_vars

\* The controller with disconnect, and with recorder instances that come
\* and go while it is not connected.  The recorder's directory is empty at
\* first and the target is the one start_recording is given.
InitConn ==
    /\ InitController
    /\ obs_running \in BOOLEAN
    /\ obs_external = obs_running
    /\ \E f \in {NoFile, FileF} : fs = [EmptyFs EXCEPT ![TPath(0)] = f]

NextConn ==
    \/ Connect
    \/ StartVirtualCamera
    \/ StartRecording
    \/ StopRecording
    \/ Disconnect
    \/ DisconnectRest
    \/ StopRpc
    \/ StopWait
    \/ StopVcam
    \/ FindScan
    \/ FindSleep
    \/ StopVerify
    \/ MvCheck
    \/ MvCopy
    \/ MvVerifyCopy
    \/ MvBackup
    \/ MvRename
    \/ MvFinal
    \/ StopAfterMove
    \/ StopFinal
    \/ Return
    \/ EnvWrite
    \/ EnvFinalized
    \/ EnvRecorderExits
    \/ EnvExternalStart

SpecConn == InitConn /\ [][NextConn]_vars

\* two callers at the same time on one connected controller
NextRace ==
    \/ RaceConnect
    \/ RaceSetTarget
    \/ RaceCall
    \/ RaceStartCheck
    \/ RaceStartReady
    \/ RaceStartVcam
    \/ RaceStartRpc
    \/ RaceStartStatus
    \/ RaceStopCheck
    \/ RaceStopMark
    \/ RaceStopRpc
    \/ RaceStopRest

SpecRace == InitRace /\ [][NextRace]_vars

-----------------------------------------------------------------------------
(* Properties.  A handler's result is observed in the state pc = "returned": *)
(* ret is what it returned, snap the controller and the files when it was     *)
(* called, hist what it did, and the locals of stop_recording and            *)
(* safe_move_file still hold their last values.                              *)

StopReturned == pc = "returned" /\ ret.op = "stop"
MoveReturned == pc = "returned" /\ ret.op = "move"
StartReturned == pc = "returned" /\ ret.op = "start"

\* the paths a recording can be moved to
TargetPaths == {TPath(n) : n \in 0..MaxConflicts}

\* the same files under the same names: nothing created, moved, renamed or
\* deleted
SameFiles(f, g) == \A p \in Paths : f[p].ex = g[p].ex /\ f[p].id = g[p].id

\* C1: whenever stop_recording returns success, the path it returns names a
\* file that exists and passes verify_file_complete, and if a target was set
\* when it was called that file is in the target folder and is not the file
\* the recorder wrote.
C1_SuccessIsRelocated ==
    (StopReturned /\ ret.ok) =>
        /\ Exists(fs, ret.path)
        /\ VerifyComplete(fs, now, ret.path)
        /\ snap.target.set => (ret.path \in TargetPaths /\ ret.path # recording_file)

\* C2: whenever stop_recording returns, every path of the target folder a
\* recording can be moved to holds no file or a file that passes
\* verify_file_complete.
C2_NoCorruptTarget ==
    StopReturned =>
        \A p \in TargetPaths : ~Exists(fs, p) \/ VerifyComplete(fs, now, p)

\* C3: in safe_move_file the source is gone only once the move has succeeded
\* and the file at the target passes verify_file_complete, and whenever
\* safe_move_file returns failure the source file is as it was at the call.
C3_SourceKept ==
    /\ (caller = "direct" /\ Exists(snap.fs, mv.src) /\ ~Exists(fs, mv.src)) =>
          (mv.ok /\ VerifyComplete(fs, now, mv.tgt))
    /\ (MoveReturned /\ ~ret.ok) => fs[mv.src] = snap.fs[mv.src]

\* a move that failed after the copy had been made and renamed into place
C3_Witness ==
    /\ MoveReturned /\ ~ret.ok /\ mv.fail = "final"
    /\ Exists(fs, mv.src)

\* C4: whenever safe_move_file returns failure after it renamed aside a file
\* that was at the target, the target holds that file again.
C4_BackupRestored ==
    (MoveReturned /\ ~ret.ok /\ mv.backup /\ Exists(snap.fs, mv.tgt)) =>
        fs[mv.tgt] = snap.fs[mv.tgt]

\* C5: whenever safe_move_file fails because the copy's size differs from the
\* source's and the target held a file at the call, the target holds that
\* same file at return and no backup of it was made.
C5_MismatchKeepsTarget ==
    (MoveReturned /\ mv.fail = "size" /\ Exists(snap.fs, mv.tgt)) =>
        /\ ~ret.ok
        /\ fs[mv.tgt] = snap.fs[mv.tgt]
        /\ fs[BackupOf(mv.tgt)] = snap.fs[BackupOf(mv.tgt)]
        /\ ~mv.backup

C5_Witness ==
    MoveReturned /\ mv.fail = "size" /\ snap.fs[mv.tgt] = FileF

\* C6: start_recording called in state RECORDING returns failure, sends no
\* RPC, takes no time and leaves the state, the target, the start time, the
\* last recording path and the files as they were.
C6_StartRejectedWhileRecording ==
    (StartReturned /\ snap.state = RECORDING) =>
        /\ ~ret.ok
        /\ hist.sent = {}
        /\ state = snap.state
        /\ recording_target = snap.target
        /\ recording_start_time = snap.start
        /\ last_recording_path = snap.last
        /\ fs = snap.fs
        /\ now = Base

C6_Witness ==
    StartReturned /\ snap.state = RECORDING /\ obs_rec /\ snap.target.set

\* C7: a file that stop_recording returned or handed to safe_move_file was
\* found by the stabilization passes, was never removed from stable_files
\* by a pass, and passed verify_file_complete.
C7_SelectedWasStable ==
    (StopReturned /\ (ret.ok \/ hist.moved)) =>
        /\ hist.found = "stable"
        /\ recording_file \notin hist.dropped

\* C8: the file find_stable_recording_file returns is not one that a pass
\* removed from stable_files because its size had changed by more than the
\* threshold, and no file of stable_files is newer than it.
C8_ReturnedNeverDropped ==
    (pc = "stop_verify" /\ hist.found = "stable") =>
        /\ recording_file \notin hist.dropped
        /\ stable_files[recording_file].in
        /\ \A q \in StableSet(stable_files) :
              stable_files[q].mtime <= stable_files[recording_file].mtime

\* C9: whenever stop_recording returns failure after it sent the stop
\* command, the state is ERROR.
C9_FailureIsError ==
    (StopReturned /\ ~ret.ok /\ "stop_record" \in hist.sent) => state = ERROR

\* C10: whenever the stop command succeeded and the last stabilization pass
\* left stable_files empty, stop_recording returns failure, the state is
\* ERROR, and the files are those that were there at the call.
C10_NoStableFile ==
    (/\ StopReturned
     /\ pass_num = StablePasses - 1
     /\ StableSet(stable_files) = {}) =>
        /\ ~ret.ok
        /\ state = ERROR
        /\ SameFiles(fs, snap.fs)

-----------------------------------------------------------------------------
(* Connection, start and notifications *)

ConnectReturned == pc = "returned" /\ ret.op = "connect"
DisconnectReturned == pc = "returned" /\ ret.op = "disconnect"

\* C11: a connect called in state ERROR that reports success has gone through
\* the connection sequence and leaves the controller CONNECTED, the state
\* from which a start is accepted.
C11_ConnectFromError ==
    (ConnectReturned /\ snap.state = ERROR /\ ret.ok) =>
        /\ state = CONNECTED
        /\ "get_version" \in hist.sent

\* C12: a connect called in state DISCONNECTED makes at most MaxAttempts
\* attempts; it returns True only with state CONNECTED and a client, and it
\* returns False only after every attempt failed, with state ERROR.
C12_ConnectAttempts ==
    (ConnectReturned /\ snap.state = DISCONNECTED) =>
        /\ hist.attempts \in 1..MaxAttempts
        /\ ret.ok => (state = CONNECTED /\ client)
        /\ ~ret.ok => (state = ERROR /\ hist.attempts = MaxAttempts)

C12_Witness ==
    /\ ConnectReturned
    /\ snap.state = DISCONNECTED
    /\ ~ret.ok
    /\ hist.attempts = MaxAttempts
    /\ state = ERROR

\* C13: a disconnect sends the shutdown command to the running recorder, or
\* terminates it, only when that instance is one the controller launched.
C13_OnlyOwnInstanceShutDown ==
    (DisconnectReturned /\ hist.killed) => ~snap.external

\* C14: a start_recording called while the recorder's virtual camera is
\* already active sends no start_virtual_cam command.
C14_NoDoubleStartFeed ==
    (StartReturned /\ snap.vcam) => "start_virtual_cam" \notin hist.sent

\* C15: once the start command was sent, start_recording returns True and
\* leaves RECORDING only when the recorder captures at the status query, and
\* when the query answers that it does not, the result is False and the
\* state CONNECTED.
C15_StartFollowsStatus ==
    (StartReturned /\ "start_record" \in hist.sent) =>
        /\ (ret.ok \/ state = RECORDING) => (ret.ok /\ state = RECORDING /\ obs_rec)
        /\ (~obs_rec /\ ret.msg # "exception") => (~ret.ok /\ state = CONNECTED)

C15_Witness ==
    /\ StartReturned
    /\ "get_record_status" \in hist.sent
    /\ "start_record" \in hist.sent
    /\ ret.msg = "Recording did not start"
    /\ ~obs_rec
    /\ state = CONNECTED

\* C16: after a successful stop whose target path held a file when stop was
\* called, the target path holds the recording and another path of the
\* target folder holds the file that was there.
C16_ConflictKeepsBackup ==
    (StopReturned /\ ret.ok /\ snap.target.set
        /\ snap.fs[snap.target.full_path].ex) =>
        /\ fs[snap.target.full_path].ex
        /\ fs[snap.target.full_path].id = "rec"
        /\ \E p \in TargetPaths \ {snap.target.full_path} :
              fs[p].ex /\ fs[p].id = snap.fs[snap.target.full_path].id

\* C17: a stop whose stop command fails returns the result "Not recording"
\* and does not leave the controller in state ERROR.
C17_StopRpcFailureIsBenign ==
    (StopReturned /\ snap.state = RECORDING /\ hist.sent = {"stop_record"}) =>
        /\ state # ERROR
        /\ ret.msg = "Not recording"

\* C18: a start or a stop in which a wait loop ran out its bound returns
\* a failure.
C18_ExpiredWaitFails ==
    (pc = "returned" /\ ret.op \in {"start", "stop"} /\ hist.expired # {}) =>
        ~ret.ok

\* C19: whatever state disconnect is called in, and whether or not the stop
\* and the shutdown on its way succeed, it returns with state DISCONNECTED
\* and without a client.
C19_DisconnectLeavesDisconnected ==
    DisconnectReturned => (state = DISCONNECTED /\ ~client)

C19_Witness ==
    /\ DisconnectReturned
    /\ snap.state = RECORDING
    /\ "stop_record" \in hist.sent
    /\ "get_record_directory" \notin hist.sent
    /\ Owned(obs_started_by_us, obs_process)
    /\ obs_running
    /\ state = DISCONNECTED
    /\ ~client

\* C20: when a handler returns, the last state_changed event it raised
\* carries the state it leaves, and a handler that raised none has left the
\* state as it was.
C20_ChangeIsNotified ==
    pc = "returned" =>
        \/ hist.notified = state
        \/ hist.notified = "none" /\ state = snap.state

-----------------------------------------------------------------------------
(* Pre-flight, ordering inside stop, and the temporary file *)

\* C22: a start whose pre-flight check finds the recorder ready and less
\* than 1 GB free on the recording volume still sends the start command.
C22_LowDiskDoesNotBlock ==
    (StartReturned /\ hist.low_disk) => "start_record" \in hist.sent

\* C24: stop_recording reaches the stop of the virtual camera and the file
\* search only when a status query of the wait loop reported the output
\* inactive.
C24_VcamStopsAfterConfirmedStop ==
    (pc \in {"stop_vcam", "find_scan"} /\ im_client) =>
        "recording_stop" \notin hist.expired

\* C27: a start rejected by the pre-flight check has sent neither the
\* start_virtual_cam nor the start_record command and has left the state,
\* the recording target, the session start time and the last recording path
\* as they were.
C27_RejectedStartHasNoEffect ==
    (StartReturned /\ ret.msg = "OBS not ready for recording") =>
        /\ ~ret.ok
        /\ hist.sent \cap {"start_virtual_cam", "start_record"} = {}
        /\ state = snap.state
        /\ recording_target = snap.target
        /\ recording_start_time = snap.start
        /\ last_recording_path = snap.last
        /\ obs_vcam = snap.vcam

C27_Witness ==
    /\ StartReturned
    /\ ret.msg = "OBS not ready for recording"
    /\ "get_record_status" \in hist.sent
    /\ snap.target.set
    /\ snap.last # NoPath
    /\ last_recording_path = snap.last

-----------------------------------------------------------------------------
(* The stop sequence without faults, and the recording target *)

\* the file the recorder wrote in the session that is being stopped
SessionFile == RPath(obs_seq)

\* C23: a stop called in state RECORDING with a target whose path is free,
\* after the recorder has written a file of sufficient size and no other
\* file since the session began, in which no call fails and the recorder
\* writes no more, returns True with the
\* target's full path; the file there has the size the recorder's file had,
\* the recorder's file is gone and the state is CONNECTED.
C23_HappyPath ==
    (/\ StopReturned
     /\ snap.state = RECORDING
     /\ snap.target.set
     /\ ~snap.fs[snap.target.full_path].ex
     /\ snap.fs[SessionFile].ex
     /\ snap.fs[SessionFile].size >= MinSizeBytes
     /\ CurrentFiles(snap.fs, snap.start) \subseteq {SessionFile}
     /\ ~hist.fault) =>
        /\ ret.ok
        /\ ret.path = snap.target.full_path
        /\ fs[ret.path].ex
        /\ fs[ret.path].id = "rec"
        /\ fs[ret.path].size = snap.fs[SessionFile].size
        /\ ~fs[SessionFile].ex
        /\ state = CONNECTED

C23_Witness ==
    /\ StopReturned
    /\ snap.state = RECORDING
    /\ snap.target.set
    /\ ~snap.fs[snap.target.full_path].ex
    /\ CurrentFiles(snap.fs, snap.start) \subseteq {SessionFile}
    /\ ~hist.fault
    /\ ret.ok
    /\ ret.path = snap.target.full_path
    /\ fs[ret.path].size = snap.fs[SessionFile].size
    /\ ~fs[SessionFile].ex
    /\ state = CONNECTED

\* C28: a stored target changes only when set_recording_target or
\* start_recording replaces it or when a successful stop clears it; a stored
\* target's full path is its folder joined with its file name; and every
\* successful stop leaves no target.
C28_TargetImmutable ==
    [][/\ (recording_target' # recording_target) =>
             \/ pc = "idle" /\ recording_target'.set
             \/ pc = "stop_final" /\ state' = CONNECTED
                   /\ recording_target' = NoTarget
       /\ recording_target'.set =>
             recording_target'.full_path =
                JoinPath(recording_target'.folder, recording_target'.filename)
       /\ (pc = "stop_final" /\ state' = CONNECTED) => ~recording_target'.set]_vars

C28_Witness ==
    /\ StopReturned
    /\ ret.ok
    /\ snap.target.set
    /\ hist.moved
    /\ mv.ok
    /\ mv.tgt # snap.target.full_path
    /\ ~recording_target.set

-----------------------------------------------------------------------------
(* The virtual camera on its own, and the states at return *)

VcamReturned == pc = "returned" /\ ret.op = "vcam"

\* C21: a start_virtual_camera whose wait loop ran out leaves the state
\* VIRTUAL_CAM_ACTIVE and returns a value other than the one a confirmed
\* activation returns.
C21_TimeoutIsSignalled ==
    (VcamReturned /\ "virtual_cam" \in hist.expired) =>
        /\ state = VIRTUAL_CAM_ACTIVE
        /\ ret.ok # StartVirtualCameraResult(TRUE)

\* the states a handler may leave
RestStates == {DISCONNECTED, CONNECTED, VIRTUAL_CAM_ACTIVE, RECORDING, ERROR}

\* C26: whenever a handler has returned, the state is none of CONNECTING,
\* VIRTUAL_CAM_STARTING and STOPPING.
C26_NoTransientStateAtReturn ==
    pc = "returned" => state \in RestStates

C26_Witness ==
    /\ StopReturned
    /\ snap.state = RECORDING
    /\ ~ret.ok
    /\ ret.msg = "No recording file found"
    /\ hist.notified = STOPPING
    /\ state = CONNECTED

(* The application's flag *)

\* C29: whenever no handler runs, video_recording_active is true exactly
\* when the controller's state is RECORDING.
C29_FlagFollowsState ==
    pc = "idle" => (video_recording_active <=> state = RECORDING)

(* Callers at the same time *)

\* C25: of the callers that run start_recording at the same time at most one
\* sends start_record, and of the callers that run stop_recording at the same
\* time at most one sends stop_record and runs the rest of the sequence.
C25_OneCallerProceeds ==
    \A o \in {"start", "stop"} :
        Cardinality({t \in Threads : calls[t].op = o /\ calls[t].issued}) <= 1

====
